---- MODULE Spec2Model ----
(***************************************************************************)
(* Model of SourceCodeModel (src/models/sourcecodemodel.cpp): the table    *)
(* model that shows the source lines of a disassembled symbol annotated    *)
(* with the per-line self cost of its instructions.                        *)
(***************************************************************************)
EXTENDS Integers, Sequences, FiniteSets, TLC

(***************************************************************************)
(* Bounds of the checked instances.                                        *)
(***************************************************************************)
MaxDisasmLines == 2      \* longest disassembly list passed to setDisassembly
MaxLine == 3             \* largest source line number in a disassembly entry
MaxAddr == 2             \* instruction addresses are 1..MaxAddr
MaxLoads == 2            \* setDisassembly calls that complete between two clear() calls
MaxHighlight == 1        \* largest line number passed to updateHighlighting

(***************************************************************************)
(* Program constants.                                                      *)
(***************************************************************************)
INT_MAX == 2147483647
INT_MIN == -INT_MAX - 1
SourceCodeColumn == 0
SourceCodeLineNumber == 1
COLUMN_COUNT == 2

(***************************************************************************)
(* int addition of a row index (>= 0) and an int: the sum wraps around in  *)
(* 32 bits.  Written so that no intermediate value leaves the int range.   *)
(***************************************************************************)
AddInt(row, off) ==
    IF off > INT_MAX - row
    THEN INT_MIN + (row - (INT_MAX - off) - 1)
    ELSE row + off

(***************************************************************************)
(* The environment: symbols, the files below each sysroot, cost results.   *)
(***************************************************************************)
SymF == [symbol |-> "f", prettySymbol |-> "f()"]
SymG == [symbol |-> "g", prettySymbol |-> "g(int)"]
Symbols == {SymF, SymG}

FileNames == {"", "a.c"}
Sysroots == {"", "/r"}

\* QFile::readAll() of the file at a path, as a sequence of characters;
\* FileSystem lists the files that exist and can be opened for reading.
FileSystem ==
    ("/r/a.c" :> <<"a", "b", "\n", "c">>)

FilePath(sysroot, sourceFileName) == sysroot \o "/" \o sourceFileName

FileOpen(path) == path \in DOMAIN FileSystem

\* QString::split(QLatin1Char('\n')) with the default KeepEmptyParts: the
\* pieces between consecutive line feeds, the empty ones included.
RECURSIVE SplitFrom(_, _, _)
SplitFrom(chars, i, cur) ==
    IF i > Len(chars) THEN <<cur>>
    ELSE IF chars[i] = "\n" THEN <<cur>> \o SplitFrom(chars, i + 1, "")
    ELSE SplitFrom(chars, i + 1, cur \o chars[i])

Split(chars) == SplitFrom(chars, 1, "")

(***************************************************************************)
(* Data::Costs and Data::CallerCalleeResults.                              *)
(***************************************************************************)
\* A default-constructed Data::Costs: no cost types.
EmptyCosts == [typeNames |-> <<>>, totalCosts |-> <<>>, costs |-> <<>>]

numTypes(c) == Len(c.typeNames)

\* Costs::initializeCostsFrom: the type names and totals of rhs, and one
\* empty id -> cost map per type.
initializeCostsFrom(c, rhs) ==
    [typeNames |-> rhs.typeNames,
     totalCosts |-> rhs.totalCosts,
     costs |-> [t \in 1..Len(rhs.typeNames) |-> <<>>]]

\* Costs::add(id, itemCost): adds itemCost[t] to the cost of id, per type.
CostsAdd(c, id, itemCost) ==
    [c EXCEPT !.costs =
        [t \in 1..Len(c.costs) |->
            IF id \in DOMAIN c.costs[t]
            THEN [c.costs[t] EXCEPT ![id] = @ + itemCost[t]]
            ELSE c.costs[t] @@ (id :> itemCost[t])]]

\* Costs::cost(type, id): 0 for an id that was never added.  type is a
\* 0-based index; an index past the table's types is an out-of-bounds read.
CostsCost(c, type, id) ==
    IF type + 1 \notin 1..Len(c.costs) THEN "out-of-bounds"
    ELSE IF id \in DOMAIN c.costs[type + 1] THEN c.costs[type + 1][id]
    ELSE 0

CostsTotalCost(c, type) ==
    IF type + 1 \notin 1..Len(c.totalCosts) THEN "out-of-bounds"
    ELSE c.totalCosts[type + 1]

CostsTypeName(c, type) ==
    IF type + 1 \notin 1..Len(c.typeNames) THEN "out-of-bounds"
    ELSE c.typeNames[type + 1]

\* Util::formatCostRelative(cost, totalCost, true)
formatCostRelative(cost, totalCost) == <<"relative", cost, totalCost>>

\* The cost results the view can be given.  entries maps a symbol to its
\* offsetMap: address -> self cost per type.
NoResults ==
    [selfCosts |-> EmptyCosts,
     entries |-> ("f" :> <<>>) @@ ("g" :> <<>>)]

ResultsTwoTypes ==
    [selfCosts |-> [typeNames |-> <<"cycles", "cache-misses">>,
                    totalCosts |-> <<20, 7>>,
                    costs |-> <<(1 :> 20), (1 :> 7)>>],
     entries |-> ("f" :> ((1 :> <<2, 5>>) @@ (2 :> <<3, 0>>))) @@
                 ("g" :> (1 :> <<6, 1>>))]

AllResults == {NoResults, ResultsTwoTypes}

\* CallerCalleeResults::entry(symbol): the entry of the symbol (an entry
\* with an empty offsetMap when the symbol has no costs).
ResultsEntry(results, symbol) == [offsetMap |-> results.entries[symbol.symbol]]

(***************************************************************************)
(* The inputs of setDisassembly.                                           *)
(***************************************************************************)
DisassemblyLine == [addr : 1..MaxAddr, sourceCodeLine : 0..MaxLine]

\* A disassembly lists each instruction once, by ascending address.
DisassemblyLineLists ==
    {l \in UNION {[1..n -> DisassemblyLine] : n \in 0..MaxDisasmLines} :
        \A i \in 1..Len(l) - 1 : l[i].addr < l[i + 1].addr}

DisassemblyOutput ==
    [symbol : Symbols, sourceFileName : FileNames,
     disassemblyLines : DisassemblyLineLists]

NoDisassembly == [symbol |-> SymF, sourceFileName |-> "", disassemblyLines |-> <<>>]

(***************************************************************************)
(* State.                                                                  *)
(***************************************************************************)
VARIABLES
    m_sourceCode,            \* QStringList: the displayed rows
    m_validLineNumbers,      \* QSet<int>
    m_costs,                 \* Data::Costs, keyed by source line
    m_lineOffset,            \* int
    m_highlightLine,         \* int
    m_numTypes,              \* int
    m_callerCalleeResults,   \* Data::CallerCalleeResults
    m_sysroot,               \* QString
    QT_NO_DEBUG,             \* TRUE in a build without Q_ASSERT
    running,                 \* FALSE once the process has aborted
    emitted,                 \* the signals emitted by the last call
    lastCall,                \* the last call made on the model and its outcome
    loaded,                  \* the last setDisassembly call that completed
    loadsSinceClear          \* the number of calls that completed since the last clear()

vars == <<m_sourceCode, m_validLineNumbers, m_costs, m_lineOffset,
          m_highlightLine, m_numTypes, m_callerCalleeResults, m_sysroot,
          QT_NO_DEBUG, running, emitted, lastCall, loaded, loadsSinceClear>>

\* The signals of QAbstractItemModel that the model emits: beginResetModel()
\* emits modelAboutToBeReset, endResetModel() emits modelReset; an index is
\* <<row, column>>.
modelAboutToBeReset == [signal |-> "modelAboutToBeReset"]
modelReset == [signal |-> "modelReset"]
dataChanged(topLeft, bottomRight) ==
    [signal |-> "dataChanged", topLeft |-> topLeft, bottomRight |-> bottomRight]

Call(op, sourceFileName, result) ==
    [op |-> op, sourceFileName |-> sourceFileName, result |-> result]

NotLoaded == [valid |-> FALSE, dis |-> NoDisassembly, path |-> ""]

Init ==
    /\ m_sourceCode = <<>>
    /\ m_validLineNumbers = {}
    /\ m_costs = EmptyCosts
    /\ m_lineOffset = 0
    /\ m_highlightLine = 0
    /\ m_numTypes = 0
    /\ m_callerCalleeResults = NoResults
    /\ m_sysroot = ""
    /\ QT_NO_DEBUG \in BOOLEAN
    /\ running = TRUE
    /\ emitted = <<>>
    /\ lastCall = Call("SourceCodeModel", "", "ok")
    /\ loaded = NotLoaded
    /\ loadsSinceClear = 0


(***************************************************************************)
(* Queries.                                                                *)
(***************************************************************************)
rowCount == Len(m_sourceCode)

columnCount == COLUMN_COUNT + m_numTypes

lineForIndex(row) == AddInt(row, m_lineOffset)

\* QAbstractItemModel::hasIndex for a top-level index.
hasIndex(row, column) ==
    /\ row >= 0 /\ row < rowCount
    /\ column >= 0 /\ column < columnCount

Invalid == [valid |-> FALSE]
QVariant(v) == [valid |-> TRUE, value |-> v]

\* SourceCodeModel::data; rows and columns are 0-based as in the code,
\* m_sourceCode.at(row) is m_sourceCode[row + 1] here.
data(row, column, role) ==
    IF ~hasIndex(row, column) THEN Invalid
    ELSE IF row > Len(m_sourceCode) \/ row < 0 THEN Invalid
    ELSE IF role \in {"DisplayRole", "ToolTipRole", "CostRole", "TotalCostRole"}
    THEN IF column = SourceCodeColumn THEN QVariant(m_sourceCode[row + 1])
         ELSE IF column = SourceCodeLineNumber THEN QVariant(AddInt(row, m_lineOffset))
         ELSE IF column - COLUMN_COUNT < m_numTypes
         THEN IF role = "CostRole"
              THEN QVariant(CostsCost(m_costs, column - COLUMN_COUNT, AddInt(row, m_lineOffset)))
              ELSE IF role = "TotalCostRole"
              THEN QVariant(CostsTotalCost(m_costs, column - COLUMN_COUNT))
              ELSE QVariant(formatCostRelative(
                       CostsCost(m_costs, column - COLUMN_COUNT, AddInt(row, m_lineOffset)),
                       CostsTotalCost(m_costs, column - COLUMN_COUNT)))
         ELSE Invalid
    ELSE IF role = "HighlightRole"
    THEN QVariant(AddInt(row, m_lineOffset) = m_highlightLine)
    ELSE IF role = "RainbowLineNumberRole"
    THEN IF AddInt(row, m_lineOffset) \in m_validLineNumbers
         THEN QVariant(AddInt(row, m_lineOffset))
         ELSE QVariant(-1)
    ELSE Invalid

\* SourceCodeModel::headerData for Qt::DisplayRole, Qt::Horizontal.
headerData(section) ==
    IF section < 0 \/ section >= COLUMN_COUNT + m_numTypes THEN Invalid
    ELSE IF section = SourceCodeColumn THEN QVariant("Source Code")
    ELSE IF section = SourceCodeLineNumber THEN QVariant("Line")
    ELSE IF section - COLUMN_COUNT <= m_numTypes
    THEN QVariant(CostsTypeName(m_costs, section - COLUMN_COUNT))
    ELSE Invalid

(***************************************************************************)
(* clear()                                                                 *)
(***************************************************************************)
\* clear() that signals the reset but leaves m_sourceCode as it is.
clear_keepsRows ==
    /\ running
    /\ emitted' = <<modelAboutToBeReset, modelReset>>
    /\ lastCall' = Call("clear", "", "ok")
    /\ loadsSinceClear' = 0
    /\ UNCHANGED <<m_sourceCode, m_validLineNumbers, m_costs, m_lineOffset,
                   m_highlightLine, m_numTypes, m_callerCalleeResults, m_sysroot,
                   QT_NO_DEBUG, running, loaded>>

clear ==
    /\ running
    /\ m_sourceCode' = <<>>
    /\ emitted' = <<modelAboutToBeReset, modelReset>>
    /\ lastCall' = Call("clear", "", "ok")
    /\ loadsSinceClear' = 0
    /\ UNCHANGED <<m_validLineNumbers, m_costs, m_lineOffset, m_highlightLine,
                   m_numTypes, m_callerCalleeResults, m_sysroot, QT_NO_DEBUG,
                   running, loaded>>

(***************************************************************************)
(* setDisassembly(disassemblyOutput)                                       *)
(***************************************************************************)
\* The two early returns: TRUE when the call goes on to reset the model.
LoadProceeds(sysroot, d) ==
    IF d.sourceFileName = "" THEN FALSE
    ELSE IF ~FileOpen(FilePath(sysroot, d.sourceFileName)) THEN FALSE
    ELSE TRUE

\* ScanStart without  m_costs = {}: the costs of the previous load stay.
ScanStart_keepsCosts(results) ==
    [maxLineNumber |-> 0,
     minLineNumber |-> INT_MAX,
     validLineNumbers |-> {},
     costs |-> IF Len(m_costs.costs) = Len(results.selfCosts.typeNames)
               THEN m_costs
               ELSE initializeCostsFrom(EmptyCosts, results.selfCosts)]

\* The locals and members the scan loop works on, before the first entry.
ScanStart(results) ==
    [maxLineNumber |-> 0,
     minLineNumber |-> INT_MAX,
     validLineNumbers |-> {},
     costs |-> initializeCostsFrom(EmptyCosts, results.selfCosts)]

\* ScanLine that tracks the minimum before it skips the entries of line 0.
ScanLine_minBeforeSkip(s, line, entry) ==
    IF line.sourceCodeLine = 0
    THEN [s EXCEPT !.minLineNumber = IF 0 < @ THEN 0 ELSE @]
    ELSE [maxLineNumber |-> IF line.sourceCodeLine > s.maxLineNumber
                            THEN line.sourceCodeLine ELSE s.maxLineNumber,
          minLineNumber |-> IF line.sourceCodeLine < s.minLineNumber
                            THEN line.sourceCodeLine ELSE s.minLineNumber,
          costs |-> IF line.addr \in DOMAIN entry.offsetMap
                    THEN CostsAdd(s.costs, line.sourceCodeLine, entry.offsetMap[line.addr])
                    ELSE s.costs,
          validLineNumbers |-> s.validLineNumbers \cup {line.sourceCodeLine}]

\* ScanLine that records a line as valid only inside the branch that found
\* a self cost for the address.
ScanLine_validOnlyWithCost(s, line, entry) ==
    IF line.sourceCodeLine = 0 THEN s
    ELSE [maxLineNumber |-> IF line.sourceCodeLine > s.maxLineNumber
                            THEN line.sourceCodeLine ELSE s.maxLineNumber,
          minLineNumber |-> IF line.sourceCodeLine < s.minLineNumber
                            THEN line.sourceCodeLine ELSE s.minLineNumber,
          costs |-> IF line.addr \in DOMAIN entry.offsetMap
                    THEN CostsAdd(s.costs, line.sourceCodeLine, entry.offsetMap[line.addr])
                    ELSE s.costs,
          validLineNumbers |-> IF line.addr \in DOMAIN entry.offsetMap
                               THEN s.validLineNumbers \cup {line.sourceCodeLine}
                               ELSE s.validLineNumbers]

\* One iteration of the loop over disassemblyOutput.disassemblyLines.
ScanLine(s, line, entry) ==
    IF line.sourceCodeLine = 0 THEN s
    ELSE [maxLineNumber |-> IF line.sourceCodeLine > s.maxLineNumber
                            THEN line.sourceCodeLine ELSE s.maxLineNumber,
          minLineNumber |-> IF line.sourceCodeLine < s.minLineNumber
                            THEN line.sourceCodeLine ELSE s.minLineNumber,
          costs |-> IF line.addr \in DOMAIN entry.offsetMap
                    THEN CostsAdd(s.costs, line.sourceCodeLine, entry.offsetMap[line.addr])
                    ELSE s.costs,
          validLineNumbers |-> s.validLineNumbers \cup {line.sourceCodeLine}]

RECURSIVE ScanFrom(_, _, _, _)
ScanFrom(s, disassemblyLines, i, entry) ==
    IF i > Len(disassemblyLines) THEN s
    ELSE ScanFrom(ScanLine(s, disassemblyLines[i], entry), disassemblyLines, i + 1, entry)

ScanLines(results, d) ==
    ScanFrom(ScanStart(results), d.disassemblyLines, 1, ResultsEntry(results, d.symbol))

\* Q_ASSERT(minLineNumber > 0); Q_ASSERT(minLineNumber < maxLineNumber);
AssertionsHold(s) ==
    /\ s.minLineNumber > 0
    /\ s.minLineNumber < s.maxLineNumber

\* The indexes i of the loop  for (i = minLineNumber - 1; i < maxLineNumber; i++)
WindowIndexes(s) == (s.minLineNumber - 1)..(s.maxLineNumber - 1)

\* The rows the call appends: the symbol's label, then lines[i] for each
\* index of the window.  lines[i] past the end of the list is an
\* out-of-bounds read, which yields stray.
AppendedRows(symbol, lines, s, stray) ==
    <<symbol.prettySymbol>> \o
    [k \in 1..Cardinality(WindowIndexes(s)) |->
        IF s.minLineNumber - 1 + k \in 1..Len(lines)
        THEN lines[s.minLineNumber - 1 + k]
        ELSE stray]

ReadsPastEnd(lines, s) == \E i \in WindowIndexes(s) : i >= Len(lines)

StrayText == {"<stray>"}

\* ReturnEarly with the checks made after beginResetModel() and
\* m_validLineNumbers.clear().
ReturnEarly_afterReset(d) ==
    /\ emitted' = <<modelAboutToBeReset>>
    /\ m_validLineNumbers' = {}
    /\ lastCall' = Call("setDisassembly", d.sourceFileName, "return")
    /\ UNCHANGED <<m_sourceCode, m_costs, m_lineOffset,
                   m_highlightLine, m_numTypes, m_callerCalleeResults,
                   m_sysroot, QT_NO_DEBUG, running, loaded, loadsSinceClear>>

\* The early return of a call whose file name is empty or whose file cannot
\* be opened.
ReturnEarly(d) ==
    /\ emitted' = <<>>
    /\ lastCall' = Call("setDisassembly", d.sourceFileName, "return")
    /\ UNCHANGED <<m_sourceCode, m_validLineNumbers, m_costs, m_lineOffset,
                   m_highlightLine, m_numTypes, m_callerCalleeResults,
                   m_sysroot, QT_NO_DEBUG, running, loaded, loadsSinceClear>>

\* A failed Q_ASSERT or a fault ends the process inside the call, after
\* beginResetModel(); no call is served any more.
Terminated(d) ==
    /\ running' = FALSE
    /\ emitted' = <<modelAboutToBeReset>>
    /\ lastCall' = Call("setDisassembly", d.sourceFileName, "abort")
    /\ UNCHANGED <<m_sourceCode, m_validLineNumbers, m_costs, m_lineOffset,
                   m_highlightLine, m_numTypes, m_callerCalleeResults,
                   m_sysroot, QT_NO_DEBUG, loaded, loadsSinceClear>>

setDisassembly(d) ==
    /\ running
    /\ IF ~LoadProceeds(m_sysroot, d)
       THEN ReturnEarly(d)
       ELSE LET s == ScanLines(m_callerCalleeResults, d)
                path == FilePath(m_sysroot, d.sourceFileName)
                lines == Split(FileSystem[path])
                Abort == Terminated(d)
                Complete(stray) ==
                         /\ loadsSinceClear < MaxLoads
                         /\ loadsSinceClear' = loadsSinceClear + 1
                         /\ m_validLineNumbers' = s.validLineNumbers
                         /\ m_costs' = s.costs
                         /\ m_lineOffset' = s.minLineNumber - 1
                         /\ m_sourceCode' = m_sourceCode \o AppendedRows(d.symbol, lines, s, stray)
                         /\ emitted' = <<modelAboutToBeReset, modelReset>>
                         /\ lastCall' = Call("setDisassembly", d.sourceFileName, "ok")
                         /\ loaded' = [valid |-> TRUE, dis |-> d, path |-> path]
                         /\ UNCHANGED <<m_highlightLine, m_numTypes, m_callerCalleeResults,
                                        m_sysroot, QT_NO_DEBUG, running>>
            IN  IF ~QT_NO_DEBUG /\ ~AssertionsHold(s) THEN Abort
                ELSE IF ReadsPastEnd(lines, s)
                THEN IF ~QT_NO_DEBUG THEN Abort
                     ELSE \/ Abort
                          \/ \E stray \in StrayText : Complete(stray)
                ELSE Complete("")

(***************************************************************************)
(* updateHighlighting(line)                                                *)
(***************************************************************************)
\* updateHighlighting that resets the table instead of signalling a change.
updateHighlighting_resetsRows(line) ==
    /\ running
    /\ m_highlightLine' = line
    /\ m_sourceCode' = <<>>
    /\ emitted' = <<modelAboutToBeReset, modelReset>>
    /\ lastCall' = Call("updateHighlighting", "", "ok")
    /\ UNCHANGED <<m_validLineNumbers, m_costs, m_lineOffset,
                   m_numTypes, m_callerCalleeResults, m_sysroot, QT_NO_DEBUG,
                   running, loaded, loadsSinceClear>>

\* updateHighlighting that signals the change but keeps the old line.
updateHighlighting_keepsLine(line) ==
    /\ running
    /\ emitted' = <<dataChanged(<<0, SourceCodeColumn>>, <<rowCount, SourceCodeColumn>>)>>
    /\ lastCall' = Call("updateHighlighting", "", "ok")
    /\ UNCHANGED <<m_sourceCode, m_validLineNumbers, m_costs, m_lineOffset,
                   m_highlightLine, m_numTypes, m_callerCalleeResults, m_sysroot,
                   QT_NO_DEBUG, running, loaded, loadsSinceClear>>

updateHighlighting(line) ==
    /\ running
    /\ m_highlightLine' = line
    /\ emitted' = <<dataChanged(<<0, SourceCodeColumn>>, <<rowCount, SourceCodeColumn>>)>>
    /\ lastCall' = Call("updateHighlighting", "", "ok")
    /\ UNCHANGED <<m_sourceCode, m_validLineNumbers, m_costs, m_lineOffset,
                   m_numTypes, m_callerCalleeResults, m_sysroot, QT_NO_DEBUG,
                   running, loaded, loadsSinceClear>>

(***************************************************************************)
(* setSysroot(sysroot)                                                     *)
(***************************************************************************)
setSysroot(sysroot) ==
    /\ running
    /\ m_sysroot' = sysroot
    /\ emitted' = <<>>
    /\ lastCall' = Call("setSysroot", "", "ok")
    /\ UNCHANGED <<m_sourceCode, m_validLineNumbers, m_costs, m_lineOffset,
                   m_highlightLine, m_numTypes, m_callerCalleeResults,
                   QT_NO_DEBUG, running, loaded, loadsSinceClear>>

(***************************************************************************)
(* setCallerCalleeResults(results)                                         *)
(***************************************************************************)
\* setCallerCalleeResults that stores the results but not their type count.
setCallerCalleeResults_keepsNumTypes(results) ==
    /\ running
    /\ m_callerCalleeResults' = results
    /\ emitted' = <<modelAboutToBeReset, modelReset>>
    /\ lastCall' = Call("setCallerCalleeResults", "", "ok")
    /\ UNCHANGED <<m_sourceCode, m_validLineNumbers, m_costs, m_lineOffset,
                   m_highlightLine, m_numTypes, m_sysroot, QT_NO_DEBUG, running,
                   loaded, loadsSinceClear>>

setCallerCalleeResults(results) ==
    /\ running
    /\ m_callerCalleeResults' = results
    /\ m_numTypes' = numTypes(results.selfCosts)
    /\ emitted' = <<modelAboutToBeReset, modelReset>>
    /\ lastCall' = Call("setCallerCalleeResults", "", "ok")
    /\ UNCHANGED <<m_sourceCode, m_validLineNumbers, m_costs, m_lineOffset,
                   m_highlightLine, m_sysroot, QT_NO_DEBUG, running, loaded,
                   loadsSinceClear>>

Next ==
    \/ clear
    \/ \E d \in DisassemblyOutput : setDisassembly(d)
    \/ \E line \in 0..MaxHighlight : updateHighlighting(line)
    \/ \E sysroot \in Sysroots : setSysroot(sysroot)
    \/ \E results \in AllResults : setCallerCalleeResults(results)

Spec == Init /\ [][Next]_vars


(***************************************************************************)
(* What the claims speak of, stated from the inputs of a call rather than  *)
(* from the scan that the code makes.                                      *)
(***************************************************************************)
\* The non-zero source lines the entries of a disassembly refer to.
NonZeroLines(d) ==
    {d.disassemblyLines[i].sourceCodeLine : i \in 1..Len(d.disassemblyLines)} \ {0}

SetMin(S) == CHOOSE x \in S : \A y \in S : x <= y
SetMax(S) == CHOOSE x \in S : \A y \in S : x >= y

RECURSIVE SumOver(_, _)
SumOver(S, f) ==
    IF S = {} THEN 0
    ELSE LET x == CHOOSE y \in S : TRUE IN f[x] + SumOver(S \ {x}, f)

\* The self cost of type t (0-based) that the entries of d on line L carry
\* in the cost results: one term per entry whose address has a self cost.
ExpectedCost(d, results, L, t) ==
    LET offsetMap == results.entries[d.symbol.symbol]
        hits == {i \in 1..Len(d.disassemblyLines) :
                    /\ d.disassemblyLines[i].sourceCodeLine = L
                    /\ L # 0
                    /\ d.disassemblyLines[i].addr \in DOMAIN offsetMap}
    IN  SumOver(hits, [i \in hits |-> offsetMap[d.disassemblyLines[i].addr][t + 1]])

\* The L-th physical line of a file: the characters after its (L-1)-th line
\* feed, up to the next line feed or the end of the file.
LineFeedsBefore(chars, k) == Cardinality({j \in 1..k - 1 : chars[j] = "\n"})

RECURSIVE Join(_)
Join(cs) == IF cs = <<>> THEN "" ELSE Head(cs) \o Join(Tail(cs))

PhysicalLine(chars, L) ==
    Join(SelectSeq([k \in 1..Len(chars) |->
                       IF chars[k] # "\n" /\ LineFeedsBefore(chars, k) = L - 1
                       THEN chars[k] ELSE ""],
                   LAMBDA c : c # ""))

PhysicalLineCount(chars) == LineFeedsBefore(chars, Len(chars) + 1) + 1

LoadCompleted == lastCall.op = "setDisassembly" /\ lastCall.result = "ok"

(***************************************************************************)
(* C1.  setDisassembly with an empty source file name, or with a file that *)
(* cannot be opened, changes nothing: the rows, the offset, the costs and  *)
(* the valid lines are the same after the call as before it, and no reset  *)
(* is signalled.                                                           *)
(***************************************************************************)
C1_FailedLoadChangesNothing ==
    [][(/\ lastCall'.op = "setDisassembly"
        /\ \/ lastCall'.sourceFileName = ""
           \/ ~FileOpen(FilePath(m_sysroot, lastCall'.sourceFileName)))
       => /\ rowCount' = rowCount
          /\ UNCHANGED <<m_sourceCode, m_lineOffset, m_costs, m_validLineNumbers>>
          /\ emitted' = <<>>]_vars

\* A call naming a file that cannot be opened has returned while rows of an
\* earlier load are displayed.
C1_Witness ==
    /\ lastCall.op = "setDisassembly"
    /\ lastCall.result = "return"
    /\ lastCall.sourceFileName = "a.c"
    /\ rowCount > 0
    /\ m_validLineNumbers # {}

(***************************************************************************)
(* C2.  After every setDisassembly that completes, whatever was displayed  *)
(* before, rowCount() is maximum - minimum + 2: the header row and one row *)
(* per line of the window of the call's non-zero source lines.             *)
(***************************************************************************)
C2_RowCountIsWindowSize ==
    (LoadCompleted /\ NonZeroLines(loaded.dis) # {})
    => rowCount = SetMax(NonZeroLines(loaded.dis)) - SetMin(NonZeroLines(loaded.dis)) + 2

(***************************************************************************)
(* C3.  In every state, row 0 shows the symbol label of the last completed *)
(* load and every row r >= 1 shows physical line r + offset of the file    *)
(* that load read.                                                         *)
(***************************************************************************)
C3_RowsShowLoadedFile ==
    (loaded.valid /\ rowCount > 0)
    => /\ data(0, SourceCodeColumn, "DisplayRole") = QVariant(loaded.dis.symbol.prettySymbol)
       /\ \A r \in 1..rowCount - 1 :
            lineForIndex(r) \in 1..PhysicalLineCount(FileSystem[loaded.path])
            => data(r, SourceCodeColumn, "DisplayRole")
                 = QVariant(PhysicalLine(FileSystem[loaded.path], lineForIndex(r)))


(***************************************************************************)
(* C4.  Right after a setDisassembly that completes, the CostRole value of *)
(* every row and cost type is the sum of the self costs that the call's    *)
(* entries on that row's line carry for the loaded symbol: one term per    *)
(* entry whose address has a self cost, nothing for line 0, 0 for a line   *)
(* without such an entry, nothing from an earlier load.                    *)
(***************************************************************************)
C4_CostIsSumOfSelfCosts ==
    LoadCompleted
    => \A r \in 0..rowCount - 1 : \A t \in 0..m_numTypes - 1 :
         data(r, COLUMN_COUNT + t, "CostRole")
           = QVariant(ExpectedCost(loaded.dis, m_callerCalleeResults, lineForIndex(r), t))

\* A second load in a row has completed and one of its lines sums the self
\* costs of two entries (2 + 3 cycles of f()).
C4_Witness ==
    /\ LoadCompleted
    /\ loadsSinceClear = 2
    /\ m_numTypes = 2
    /\ Len(loaded.dis.disassemblyLines) = 2
    /\ \E r \in 1..rowCount - 1 : data(r, COLUMN_COUNT, "CostRole") = QVariant(5)

C6_ReachableIffEntry ==
    loaded.valid
    => \A r \in 0..rowCount - 1 :
         data(r, SourceCodeColumn, "RainbowLineNumberRole")
           = IF lineForIndex(r) \in NonZeroLines(loaded.dis)
             THEN QVariant(lineForIndex(r))
             ELSE QVariant(-1)

\* After a second load in a row, a line whose cost is 0 is reported
\* reachable, and another row of the table is not.
C6_Witness ==
    /\ LoadCompleted
    /\ loadsSinceClear = 2
    /\ m_numTypes = 2
    /\ \E r \in 1..rowCount - 1 :
         /\ data(r, SourceCodeColumn, "RainbowLineNumberRole") = QVariant(lineForIndex(r))
         /\ data(r, COLUMN_COUNT, "CostRole") = QVariant(0)
    /\ \E r \in 1..rowCount - 1 :
         data(r, SourceCodeColumn, "RainbowLineNumberRole") = QVariant(-1)

(***************************************************************************)
(* C7.  With assertions disabled, a setDisassembly whose entries have no   *)
(* non-zero source line, or whose minimum is not below its maximum,        *)
(* changes nothing: rows, offset, costs and valid lines stay as they were. *)
(***************************************************************************)
C7_MalformedLoadChangesNothing ==
    [][(/\ QT_NO_DEBUG
        /\ lastCall'.op = "setDisassembly"
        /\ lastCall'.result = "ok"
        /\ \/ NonZeroLines(loaded'.dis) = {}
           \/ SetMin(NonZeroLines(loaded'.dis)) >= SetMax(NonZeroLines(loaded'.dis)))
       => UNCHANGED <<m_sourceCode, m_lineOffset, m_costs, m_validLineNumbers>>]_vars

C9_ClearResetsDerivedState ==
    lastCall.op = "clear"
    => /\ m_validLineNumbers = {}
       /\ \A t \in 1..Len(m_costs.costs) : DOMAIN m_costs.costs[t] = {}
       /\ m_lineOffset = 0
       /\ \A r \in 0..MaxLine : lineForIndex(r) = r

(***************************************************************************)
(* C10.  Right after setCallerCalleeResults, rowCount() is 0 and the costs *)
(* of the previous load are cleared.                                       *)
(***************************************************************************)
C10_SetResultsResetsContent ==
    lastCall.op = "setCallerCalleeResults"
    => /\ rowCount = 0
       /\ \A t \in 1..Len(m_costs.costs) : DOMAIN m_costs.costs[t] = {}

(***************************************************************************)
(* C11.  In every state columnCount() is 2 plus the number of cost types   *)
(* of the cost results last passed to setCallerCalleeResults (2 when none  *)
(* was passed), and no call of setDisassembly, clear or updateHighlighting *)
(* changes it.                                                             *)
(***************************************************************************)
C11_ColumnCountFollowsContext ==
    /\ [](columnCount = 2 + Len(m_callerCalleeResults.selfCosts.typeNames))
    /\ [][lastCall'.op \in {"setDisassembly", "clear", "updateHighlighting"}
            => columnCount' = columnCount]_vars

\* A line was highlighted in a table that a load has filled under a cost
\* context with two types: four columns.
C11_Witness ==
    /\ lastCall.op = "updateHighlighting"
    /\ loaded.valid
    /\ rowCount > 0
    /\ Len(m_callerCalleeResults.selfCosts.typeNames) = 2
    /\ columnCount = 4

(***************************************************************************)
(* C12.  Right after updateHighlighting(L), HighlightRole at a row r of    *)
(* the table is true exactly when r + offset = L, in every column; so at   *)
(* most one row is flagged.                                                *)
(***************************************************************************)
C12_HighlightIffLine ==
    [][\A L \in 0..MaxHighlight :
         updateHighlighting(L)
         => /\ \A r \in 0..rowCount' - 1 : \A c \in 0..columnCount' - 1 :
                 data(r, c, "HighlightRole")' = QVariant(lineForIndex(r)' = L)
            /\ Cardinality({r \in 0..rowCount' - 1 :
                   data(r, SourceCodeColumn, "HighlightRole")' = QVariant(TRUE)}) <= 1]_vars

\* Line 1 was highlighted in a loaded table: a content row is flagged and
\* another row is not.
C12_Witness ==
    /\ lastCall.op = "updateHighlighting"
    /\ m_highlightLine = 1
    /\ \E r \in 1..rowCount - 1 :
         /\ lineForIndex(r) = 1
         /\ data(r, SourceCodeColumn, "HighlightRole") = QVariant(TRUE)
    /\ \E r \in 1..rowCount - 1 :
         data(r, SourceCodeColumn, "HighlightRole") = QVariant(FALSE)

(***************************************************************************)
(* C13.  updateHighlighting(L) changes the highlighted line and nothing    *)
(* else: the row and column counts, the text of every row, the line        *)
(* offset, the valid lines and every CostRole and TotalCostRole value are  *)
(* the same after the call as before it.                                   *)
(***************************************************************************)
C13_HighlightChangesOnlyHighlight ==
    [][\A L \in 0..MaxHighlight :
         updateHighlighting(L)
         => /\ rowCount' = rowCount
            /\ columnCount' = columnCount
            /\ UNCHANGED <<m_lineOffset, m_validLineNumbers>>
            /\ \A r \in 0..rowCount - 1 :
                 /\ lineForIndex(r)' = lineForIndex(r)
                 /\ data(r, SourceCodeColumn, "DisplayRole")'
                      = data(r, SourceCodeColumn, "DisplayRole")
                 /\ data(r, SourceCodeColumn, "RainbowLineNumberRole")'
                      = data(r, SourceCodeColumn, "RainbowLineNumberRole")
                 /\ \A c \in COLUMN_COUNT..columnCount - 1 :
                      /\ data(r, c, "CostRole")' = data(r, c, "CostRole")
                      /\ data(r, c, "TotalCostRole")' = data(r, c, "TotalCostRole")]_vars

\* The highlighted line was moved from 0 to 1 in a loaded table that shows
\* a cost of 5 cycles.
C13_Witness ==
    /\ lastCall.op = "updateHighlighting"
    /\ m_highlightLine = 1
    /\ m_numTypes = 2
    /\ Len(m_costs.costs) = 2
    /\ \E r \in 1..rowCount - 1 : data(r, COLUMN_COUNT, "CostRole") = QVariant(5)

(***************************************************************************)
(* C14.  The highlighted line does not survive a load: right after a       *)
(* setDisassembly that completes, with a line L > 0 highlighted before it  *)
(* and no updateHighlighting since, no row reports HighlightRole true.     *)
(***************************************************************************)
C14_LoadDropsHighlight ==
    (LoadCompleted /\ m_highlightLine > 0)
    => \A r \in 0..rowCount - 1 :
         data(r, SourceCodeColumn, "HighlightRole") = QVariant(FALSE)

(***************************************************************************)
(* C15.  In every state the header of column 0 is "Source Code", that of   *)
(* column 1 is "Line", and that of every cost column c, 2 <= c <           *)
(* columnCount(), is the name of cost type c - 2 of the cost results last  *)
(* passed to setCallerCalleeResults, also when no load followed that call. *)
(***************************************************************************)
C15_HeadersNameActiveTypes ==
    /\ headerData(SourceCodeColumn) = QVariant("Source Code")
    /\ headerData(SourceCodeLineNumber) = QVariant("Line")
    /\ \A c \in COLUMN_COUNT..columnCount - 1 :
         headerData(c) = QVariant(m_callerCalleeResults.selfCosts.typeNames[c - COLUMN_COUNT + 1])

(***************************************************************************)
(* C16.  In every state the per-line cost table has as many cost types as  *)
(* columnCount() has cost columns, so the type index of every cost cell    *)
(* and cost header, column - 2 for 2 <= column < columnCount(), exists in  *)
(* the table; also between a setCallerCalleeResults that changes the type  *)
(* count and the next load.                                                *)
(***************************************************************************)
C16_CostTableHasEveryColumn ==
    /\ numTypes(m_costs) = m_numTypes
    /\ \A c \in COLUMN_COUNT..columnCount - 1 :
         /\ c - COLUMN_COUNT + 1 \in DOMAIN m_costs.costs
         /\ c - COLUMN_COUNT + 1 \in DOMAIN m_costs.totalCosts
         /\ c - COLUMN_COUNT + 1 \in DOMAIN m_costs.typeNames

(***************************************************************************)
(* C17.  Row 0, the header row, maps to no line: right after a             *)
(* setDisassembly that completes, RainbowLineNumberRole at row 0 is -1,    *)
(* every CostRole value of row 0 is 0 and HighlightRole at row 0 is false, *)
(* whatever line is highlighted.                                           *)
(***************************************************************************)
C17_HeaderRowHasNoLine ==
    LoadCompleted
    => /\ data(0, SourceCodeColumn, "RainbowLineNumberRole") = QVariant(-1)
       /\ \A c \in COLUMN_COUNT..columnCount - 1 : data(0, c, "CostRole") = QVariant(0)
       /\ data(0, SourceCodeColumn, "HighlightRole") = QVariant(FALSE)

(***************************************************************************)
(* C18.  Every call that changes the rows, the costs, the offset, the      *)
(* valid lines or the cost type count emits modelAboutToBeReset before the *)
(* change and modelReset after it; updateHighlighting emits no reset and   *)
(* exactly one dataChanged, for column 0 and rows 0 .. rowCount() - 1,     *)
(* never a row index >= rowCount().                                        *)
(***************************************************************************)
C18_ResetVersusHighlightSignals ==
    /\ [][<<m_sourceCode, m_costs, m_lineOffset, m_validLineNumbers, m_numTypes>>'
            # <<m_sourceCode, m_costs, m_lineOffset, m_validLineNumbers, m_numTypes>>
          => emitted' = <<modelAboutToBeReset, modelReset>>]_vars
    /\ [](lastCall.op = "updateHighlighting"
            => emitted = <<dataChanged(<<0, SourceCodeColumn>>,
                                       <<rowCount - 1, SourceCodeColumn>>)>>)

(***************************************************************************)
(* C19.  Every index i of minimum - 1 .. maximum - 1 that a load uses to   *)
(* pick a line of the split file is within the list, 0 <= i < number of    *)
(* lines: no setDisassembly completes with a window that reaches past the  *)
(* last line of the file it read.                                          *)
(***************************************************************************)
C19_WindowWithinFile ==
    (loaded.valid /\ NonZeroLines(loaded.dis) # {})
    => \A i \in (SetMin(NonZeroLines(loaded.dis)) - 1)..(SetMax(NonZeroLines(loaded.dis)) - 1) :
         /\ 0 <= i
         /\ i < Len(Split(FileSystem[loaded.path]))

====
